---- MODULE Spec2Model ----
(***************************************************************************)
(* A model of the PIN scanner: the class PinScanner of pin_scanner_vip.py  *)
(* (variant "vip") and the function scan_pins of pin_scanner.py (variant   *)
(* "script").  Both sweep the candidates start_pin..end_pin, skip the      *)
(* candidates parsed from found_pins.log, POST each remaining candidate,   *)
(* classify the response and append to the log files.                      *)
(*                                                                         *)
(* Text is a sequence of tokens: a token is one character (a digit, ":",   *)
(* " ", the newline "NL") or one word or markup tag.  Files are sequences  *)
(* of the chunks written to them; reading a file concatenates the chunks.  *)
(***************************************************************************)
EXTENDS Integers, Sequences, FiniteSets, TLC

\* ------------------------------------------------------------------ bounds
\* Candidates are drawn from 0..MaxPin, end_pin from -1..MaxPin.
MaxPin == 1
\* Chunks the found-log and the potential-log together grow to (the runs are
\* not counted).
MaxChunks == 2
\* Value the counter of finds grows to (run() can be called again and again on
\* one scanner object, and the counter is never reset).
MaxFinds == 2
\* File appends that fail with IOError in one run.
MaxFaults == 1
\* Lengths of the bodies and of the indicators the classifier is checked on.
MaxBodyLen == 3
MaxIndicatorLen == 2

\* ------------------------------------------------------------------ text
Digits == <<"0", "1", "2", "3", "4", "5", "6", "7", "8", "9">>
DigitSet == {Digits[i] : i \in 1..10}
\* str.isspace() of the tokens of the model
WhiteSpace == {" ", "NL"}

\* str(pin_number): the decimal string, no zero padding
RECURSIVE Str(_)
Str(n) == IF n < 10 THEN <<Digits[n + 1]>> ELSE Str(n \div 10) \o <<Digits[(n % 10) + 1]>>

\* str.lower() of one token; tokens without letters are their own lower case
LowerTok(t) ==
    CASE t = "A" -> "a"
      [] t = "B" -> "b"
      [] t = "Invalid" -> "invalid"
      [] t = "INVALID" -> "invalid"
      [] t = "PIN" -> "pin"
      [] t = "Pin" -> "pin"
      [] t = "SUBJECT" -> "subject"
      [] t = "Welcome" -> "welcome"
      [] OTHER -> t

\* str.lower()
Lower(s) == [i \in 1..Len(s) |-> LowerTok(s[i])]

\* needle in hay (substring test of Python's str)
Contains(hay, needle) ==
    \E i \in 0..(Len(hay) - Len(needle)) :
        \A j \in 1..Len(needle) : hay[i + j] = needle[j]

\* concatenation of a sequence of texts
RECURSIVE Flatten(_)
Flatten(ss) == IF ss = <<>> THEN <<>> ELSE Head(ss) \o Flatten(Tail(ss))

\* "\n".join(lines)
RECURSIVE JoinNL(_)
JoinNL(ls) ==
    IF ls = <<>> THEN <<>>
    ELSE IF Len(ls) = 1 THEN ls[1]
    ELSE ls[1] \o <<"NL">> \o JoinNL(Tail(ls))

\* str.splitlines(): the lines of a text, a trailing newline opens no line
RECURSIVE SplitLinesFrom(_, _)
SplitLinesFrom(s, cur) ==
    IF s = <<>> THEN (IF cur = <<>> THEN <<>> ELSE <<cur>>)
    ELSE IF Head(s) = "NL" THEN <<cur>> \o SplitLinesFrom(Tail(s), <<>>)
    ELSE SplitLinesFrom(Tail(s), Append(cur, Head(s)))

SplitLines(s) == SplitLinesFrom(s, <<>>)

\* str.strip()
RECURSIVE LStrip(_)
LStrip(s) == IF s # <<>> /\ Head(s) \in WhiteSpace THEN LStrip(Tail(s)) ELSE s

RECURSIVE RStrip(_)
RStrip(s) ==
    IF s # <<>> /\ s[Len(s)] \in WhiteSpace THEN RStrip(SubSeq(s, 1, Len(s) - 1)) ELSE s

Strip(s) == RStrip(LStrip(s))

\* ------------------------------------------------------- content extraction
\* the tokens that re.sub(r'<br\s*/?>', '\n', line, flags=re.IGNORECASE) replaces
BrTags == {"<br>", "<BR/>"}
\* the tokens that re.sub(r'<.*?>', '', line) removes
Tags == {"<b>", "</b>", "<div class=itemContainer>", "</div>"}
\* the tokens in which the text 'itemContainer' occurs
ItemContainerToks == {"<div class=itemContainer>", "itemContainer"}
\* the line of '=' that ends a content block
EndMarker == "================================="

BrToNL(line) == [i \in 1..Len(line) |-> IF line[i] \in BrTags THEN "NL" ELSE line[i]]

RemoveTags(line) == SelectSeq(line, LAMBDA t : t \notin Tags)

\* 'SUBJECT:' in line and 'itemContainer' in line
StartsBlock(line) ==
    /\ Contains(line, <<"SUBJECT", ":">>)
    /\ \E i \in 1..Len(line) : line[i] \in ItemContainerToks

\* the loop of _extract_content / extract_via_raw_text over the lines
RECURSIVE ExtractLoop(_, _, _)
ExtractLoop(lines, in_content_block, content_lines) ==
    IF lines = <<>> THEN content_lines
    ELSE LET line == Head(lines)
             inb == in_content_block \/ StartsBlock(line)
             stripped == Strip(RemoveTags(BrToNL(line)))
             got == IF stripped # <<>> THEN Append(content_lines, stripped)
                    ELSE content_lines
         IN  IF ~inb THEN ExtractLoop(Tail(lines), FALSE, content_lines)
             ELSE IF \E i \in 1..Len(line) : line[i] = EndMarker THEN got
             ELSE ExtractLoop(Tail(lines), TRUE, got)

\* PinScanner._extract_content
ExtractContent(html_content) ==
    LET content_lines == ExtractLoop(SplitLines(html_content), FALSE, <<>>)
    IN  IF content_lines # <<>> THEN JoinNL(content_lines)
        ELSE <<"Extraction Failed: Could not find content blocks in the response.">>

\* extract_via_raw_text, as get_exam_summary calls it (it raises nothing)
GetExamSummary(html_content) ==
    LET content_lines == ExtractLoop(SplitLines(html_content), FALSE, <<>>)
    IN  IF content_lines # <<>> THEN JoinNL(content_lines)
        ELSE <<"Fallback failed: Could not extract content.">>

\* ------------------------------------------------------------- resume set
\* first index >= i of s that holds no white space
RECURSIVE SkipSpace(_, _)
SkipSpace(s, i) == IF i <= Len(s) /\ s[i] \in WhiteSpace THEN SkipSpace(s, i + 1) ELSE i

\* first index >= i of s that holds no digit
RECURSIVE SkipDigits(_, _)
SkipDigits(s, i) == IF i <= Len(s) /\ s[i] \in DigitSet THEN SkipDigits(s, i + 1) ELSE i

\* re.findall(r"PIN:\s*(\d+)", s) from index i on, as a set of captures
RECURSIVE FindAllPins(_, _)
FindAllPins(s, i) ==
    IF i + 1 > Len(s) THEN {}
    ELSE IF s[i] = "PIN" /\ s[i + 1] = ":"
         THEN LET j == SkipSpace(s, i + 2)
                  k == SkipDigits(s, j)
              IN  IF k > j THEN {SubSeq(s, j, k - 1)} \cup FindAllPins(s, k)
                  ELSE FindAllPins(s, i + 1)
         ELSE FindAllPins(s, i + 1)

\* _load_processed_pins / get_already_found_pins on the chunks of the found-log
\* (a missing file holds no chunk and yields the empty set)
LoadProcessedPins(log) == FindAllPins(Flatten(log), 1)

\* a classification that tests the failure indicator first
ClassifyFailureFirst(success_indicator, failure_indicator, response_text) ==
    IF Contains(Lower(response_text), Lower(failure_indicator)) THEN "Rejected"
    ELSE IF Contains(response_text, success_indicator) THEN "Match"
    ELSE "Potential"

\* ---------------------------------------------------------- classification
\* the if / elif / else of _check_pin and scan_pins on the response text
Classify(success_indicator, failure_indicator, response_text) ==
    IF Contains(response_text, success_indicator) THEN "Match"
    ELSE IF ~Contains(Lower(response_text), Lower(failure_indicator)) THEN "Potential"
    ELSE "Rejected"

\* config.success_indicator = "2025", config.failure_indicator = "invalid pin"
SuccessIndicator == <<"2", "0", "2", "5">>
FailureIndicator == <<"invalid", " ", "pin">>

\* ------------------------------------------------------------- responses
\* response bodies the server is taken to answer with
BodyInvalid == <<"<b>", "Invalid", " ", "PIN", "</b>">>
BodyWelcome == <<"<b>", "Welcome", "</b>">>
BodyFind == <<"<b>", "WAEC", " ", "2", "0", "2", "5", "</b>", "NL", "Invalid", " ", "Pin">>
BodyFindPin ==
    <<"<div class=itemContainer>", "<b>", "SUBJECT", ":", " ", "WAEC", " ",
      "2", "0", "2", "5", "<br>", "PIN", ":", " ", "0", "</b>", "</div>", "NL",
      EndMarker, "NL", "PIN", ":", "7">>
Bodies == {BodyInvalid, BodyWelcome, BodyFind, BodyFindPin}

\* the class of each of these bodies under the configured indicators
ClassOf == [b \in Bodies |-> Classify(SuccessIndicator, FailureIndicator, b)]

\* status codes the server is taken to answer with
Statuses == {200, 201, 404, 429, 503, 504}
\* the statuses after which _check_pin sleeps 60 seconds
RateLimitStatuses == {429, 503, 504}

\* ------------------------------------------------------------------ state
VARIABLES
    variant,            \* "vip": pin_scanner_vip.py, "script": pin_scanner.py
    start_pin,          \* config.start_pin / START_PIN
    end_pin,            \* config.end_pin / END_PIN
    phase,              \* "Idle", "Ready" (vip: constructed), "Aborted" (vip: the
                        \* constructor raised), "Scanning", "Finished", "Crashed"
    pin_number,         \* the loop variable of run() / scan_pins()
    processed_pins,     \* self.processed_pins / already_found_pins: the ResumeSet
    new_finds_counter,  \* self.new_finds_counter / found_this_run_counter
    found_log,          \* found_pins.log: the chunks appended to it
    potential_log,      \* potential_pins.log: the chunks appended to it
    ci_exists,          \* whether new_find_content.txt exists
    ci_file,            \* new_find_content.txt: the chunks appended to it
    posts,              \* history: the candidates POSTed in this run, in order
    outcome,            \* history: what happened to each candidate in this run
    last,               \* history: the step taken last (a run's start: the CI chunks
                        \* cleared, how the read of the found-log went; a step of the
                        \* loop: the sleeps it made)
    at_start,           \* history: lengths of the logs when this run started
    ci_written,         \* history: the chunks this run appended to the CI file
    faults,             \* history: the file appends that failed in this run
    matched_ever,       \* history: the candidates whose Match record was appended
    classified          \* the classifier alone: its inputs and its verdict

vars == <<variant, start_pin, end_pin, phase, pin_number, processed_pins,
          new_finds_counter, found_log, potential_log, ci_exists, ci_file,
          posts, outcome, last, at_start, ci_written, faults, matched_ever,
          classified>>

config == <<variant, start_pin, end_pin, classified>>


Pins == 0..MaxPin
Range == start_pin..end_pin

NoOutcome == [c \in Pins |-> "none"]
NoStep == [kind |-> "none", pin |-> -1, status |-> 0, io |-> "-", cleared |-> 0,
           read |-> "-", delay |-> FALSE, paused |-> 0]

NoClassified == [success |-> <<>>, failure |-> <<>>, text |-> <<>>, verdict |-> "none"]

\* what a file append can do: succeed, or raise IOError at the found-log, at the
\* CI file, at the log of the potential branch
IOOutcomes == {"ok", "found_fails", "ci_fails", "potential_fails"}

\* what the read of an existing found-log can do: succeed, raise IOError
\* (unreadable), raise UnicodeDecodeError (bytes that are no text)
ReadOutcomes == {"ok", "io_error", "decode_error"}

\* ------------------------------------------------------------ file chunks
\* full_content = f"PIN: {pin}\n\n{extracted_content}"
FullContent(pin, extracted_content) ==
    <<"PIN", ":", " ">> \o Str(pin) \o <<"NL", "NL">> \o extracted_content

\* vip: f"--- NEW FIND ---\n{full_content}\n{'-'*30}\n\n"
VipFoundChunk(pin, response_text) ==
    <<"--- NEW FIND ---", "NL">> \o FullContent(pin, ExtractContent(response_text))
        \o <<"NL", "------------------------------", "NL", "NL">>

\* vip: f"{full_content}\n\n---\n\n"
VipCIChunk(pin, response_text) ==
    FullContent(pin, ExtractContent(response_text)) \o <<"NL", "NL", "---", "NL", "NL">>

\* vip: f"{pin}\n"
VipPotentialChunk(pin) == Str(pin) \o <<"NL">>

\* script: f"PIN: {pin_to_test}\n\n", written by the Match and the potential branch
ScriptFoundChunk(pin) == <<"PIN", ":", " ">> \o Str(pin) \o <<"NL", "NL">>

\* script: f"{full_content}\n\n---\n\n"
ScriptCIChunk(pin, response_text) ==
    FullContent(pin, GetExamSummary(response_text)) \o <<"NL", "NL", "---", "NL", "NL">>

\* ------------------------------------------------------------------- Init
Init ==
    /\ variant \in {"vip", "script"}
    /\ start_pin \in Pins
    /\ end_pin \in -1..MaxPin
    /\ phase = "Idle"
    /\ pin_number = 0
    /\ processed_pins = {}
    /\ new_finds_counter = 0
    /\ found_log = <<>>
    /\ potential_log = <<>>
    /\ ci_exists = FALSE
    /\ ci_file = <<>>
    /\ posts = <<>>
    /\ outcome = NoOutcome
    /\ last = NoStep
    /\ at_start = [found |-> 0, potential |-> 0]
    /\ ci_written = <<>>
    /\ faults = 0
    /\ matched_ever = {}
    /\ classified = NoClassified

\* --------------------------------------------------------- start of a run
\* the history of a run, reset when the run starts
StartHistory(read) ==
    /\ last' = [NoStep EXCEPT !.kind = "start", !.cleared = Len(ci_file), !.read = read]
    /\ posts' = <<>>
    /\ outcome' = NoOutcome
    /\ at_start' = [found |-> Len(found_log), potential |-> Len(potential_log)]
    /\ ci_written' = <<>>
    /\ faults' = 0
    /\ UNCHANGED matched_ever

\* the found-log exists once something was appended to it; a read fails only on
\* an existing file (`if not log_file.exists(): return found_pins`)
CanRead(read) == read = "ok" \/ found_log # <<>>

\* the set the loader returns: found_pins stays empty when the read raises
LoadResult(read) == IF read = "ok" THEN LoadProcessedPins(found_log) ELSE {}

\* vip: `except IOError` catches the IOError, a UnicodeDecodeError (a ValueError)
\* leaves _load_processed_pins and __init__
VipLoadRaises(read) == read = "decode_error"

\* script: `except Exception` catches both
ScriptLoadRaises(read) == FALSE

\* a start of run that leaves the CI file as the run before left it
VipKeepCI == UNCHANGED <<ci_exists, ci_file>>

\* vip: `if self.config.ci_output_file.exists(): self.config.ci_output_file.unlink()`
VipClearCI ==
    /\ ci_exists' = FALSE
    /\ ci_file' = <<>>

\* script: `if os.path.exists(CI_OUTPUT_FILE): os.remove(CI_OUTPUT_FILE)`
ScriptClearCI ==
    /\ ci_exists' = FALSE
    /\ ci_file' = <<>>

\* vip: PinScanner.__init__ (main constructs the scanner, then calls run)
Construct(read) ==
    /\ variant = "vip"
    /\ phase = "Idle"
    /\ CanRead(read)
    /\ processed_pins' = LoadResult(read)
    /\ new_finds_counter' = 0
    /\ phase' = IF VipLoadRaises(read) THEN "Aborted" ELSE "Ready"
    /\ last' = [NoStep EXCEPT !.kind = "load", !.read = read]
    /\ UNCHANGED <<config, pin_number, found_log, potential_log, ci_exists, ci_file,
                   posts, outcome, at_start, ci_written, faults, matched_ever>>

\* vip: the head of PinScanner.run, on a new scanner or on one that has run before
RunStart ==
    /\ variant = "vip"
    /\ phase \in {"Ready", "Finished"}
    /\ VipClearCI
    /\ pin_number' = start_pin
    /\ phase' = "Scanning"
    /\ StartHistory(IF phase = "Ready" THEN last.read ELSE "-")
    /\ UNCHANGED <<config, processed_pins, new_finds_counter, found_log, potential_log>>

\* script: the head of scan_pins: get_already_found_pins, then the counter
ScanPinsStart(read) ==
    /\ variant = "script"
    /\ phase = "Idle"
    /\ CanRead(read)
    /\ ~ScriptLoadRaises(read)
    /\ ScriptClearCI
    /\ processed_pins' = LoadResult(read)
    /\ new_finds_counter' = 0
    /\ pin_number' = start_pin
    /\ phase' = "Scanning"
    /\ StartHistory(read)
    /\ UNCHANGED <<config, found_log, potential_log>>

\* the process ends: the scanner object and the loop are gone, the files stay
Exit ==
    /\ phase \in {"Finished", "Crashed", "Aborted"}
    /\ phase' = "Idle"
    /\ pin_number' = 0
    /\ processed_pins' = {}
    /\ new_finds_counter' = 0
    /\ posts' = <<>>
    /\ outcome' = NoOutcome
    /\ last' = NoStep
    /\ at_start' = [found |-> 0, potential |-> 0]
    /\ ci_written' = <<>>
    /\ faults' = 0
    /\ UNCHANGED <<config, found_log, potential_log, ci_exists, ci_file, matched_ever>>

\* ------------------------------------------------------- one loop iteration
\* the loop of run() / scan_pins() is at a candidate of the range
InLoop == phase = "Scanning" /\ pin_number <= end_pin

\* a loop that never skips
ShouldSkipNever(pin, resume_set) == FALSE

\* `pin in self.processed_pins` / `pin_to_test in already_found_pins`
ShouldSkip(pin, resume_set) == Str(pin) \in resume_set

\* a loop that leaves out every other candidate
NextPinSkipsOne(n) == n + 2

\* the loop goes on with the next candidate
NextPin(n) == n + 1

\* vip: `response.status_code != 200` returns before the body is read
VipStatusAccepted(status) == status = 200

\* script: scan_pins reads response.text whatever the status
ScriptStatusAccepted(status) == TRUE

\* the append that can fail in the branch a response of this class takes
IOApplies(class, io) ==
    IF class = "Match" /\ io \in {"found_fails", "ci_fails"} THEN io
    ELSE IF class = "Potential" /\ io = "potential_fails" THEN io
    ELSE "ok"

\* the logs have room for what a response of this class appends (the bound of
\* the model on the growth of the logs)
Room(class) ==
    /\ class \in {"Match", "Potential"} => Len(found_log) + Len(potential_log) < MaxChunks
    /\ class = "Match" => new_finds_counter < MaxFinds

\* `time.sleep(10)` of the except clause of both variants
BackoffSeconds == 10
\* vip: `time.sleep(60)` after a 429, 503 or 504
CooldownSeconds == 60

\* vip: run() calls time.sleep(self.config.delay) after each call of _check_pin,
\* also after one that returned at once for a processed pin
VipDelaySleeps == TRUE
\* script: the loop of scan_pins has no sleep but the one of the except clause
ScriptDelaySleeps == FALSE
DelaySleeps == IF variant = "vip" THEN VipDelaySleeps ELSE ScriptDelaySleeps

\* vip: the sleep inside the `status_code != 200` branch
VipCooldown(status) == IF status \in RateLimitStatuses THEN CooldownSeconds ELSE 0

\* history of one step on the candidate pin_number
Note(kind, hist, status, io, paused) ==
    /\ last' = [kind |-> kind, pin |-> pin_number, status |-> status, io |-> io,
                cleared |-> 0, read |-> "-", delay |-> DelaySleeps,
                paused |-> paused]
    /\ outcome' = [outcome EXCEPT ![pin_number] = hist]

\* a skip that removes the CI file on its way
SkipPinClearsCI ==
    /\ InLoop
    /\ ShouldSkip(pin_number, processed_pins)
    /\ pin_number' = NextPin(pin_number)
    /\ Note("skipped", "skipped", 0, "-", 0)
    /\ ci_exists' = FALSE
    /\ ci_file' = <<>>
    /\ UNCHANGED <<config, phase, processed_pins, new_finds_counter, found_log,
                   potential_log, posts, at_start, ci_written, faults, matched_ever>>

\* the candidate is in the ResumeSet: no request (_check_pin returns, scan_pins continues)
SkipPin ==
    /\ InLoop
    /\ ShouldSkip(pin_number, processed_pins)
    /\ pin_number' = NextPin(pin_number)
    /\ Note("skipped", "skipped", 0, "-", 0)
    /\ UNCHANGED <<config, phase, processed_pins, new_finds_counter, found_log,
                   potential_log, ci_exists, ci_file,  posts, at_start,
                   ci_written, faults, matched_ever>>

\* session.post raises requests.exceptions.RequestException: sleep 10 s, go on
TransportError ==
    /\ InLoop
    /\ ~ShouldSkip(pin_number, processed_pins)
    /\ posts' = Append(posts, pin_number)
    /\ pin_number' = NextPin(pin_number)
    /\ Note("error", "error", 0, "-", BackoffSeconds)
    /\ UNCHANGED <<config, phase, processed_pins, new_finds_counter, found_log,
                   potential_log, ci_exists, ci_file,  at_start,
                   ci_written, faults, matched_ever>>

\* vip: _process_successful_find(pin, response_text); both appends are in one try,
\* an IOError of the first skips the second
VipProcessSuccessfulFind(io, response_text) ==
    /\ new_finds_counter' = new_finds_counter + 1
    /\ found_log' = IF io = "found_fails" THEN found_log
                    ELSE Append(found_log, VipFoundChunk(pin_number, response_text))
    /\ ci_file' = IF io \in {"found_fails", "ci_fails"} THEN ci_file
                  ELSE Append(ci_file, VipCIChunk(pin_number, response_text))
    /\ ci_written' = IF io \in {"found_fails", "ci_fails"} THEN ci_written
                     ELSE Append(ci_written, VipCIChunk(pin_number, response_text))
    /\ ci_exists' = IF io \in {"found_fails", "ci_fails"} THEN ci_exists ELSE TRUE
    /\ faults' = IF io \in {"found_fails", "ci_fails"} THEN faults + 1 ELSE faults
    /\ matched_ever' = IF io = "found_fails" THEN matched_ever
                       ELSE matched_ever \cup {pin_number}
    /\ UNCHANGED potential_log

\* a potential branch that opens its log for writing, not for appending
VipLogPotentialTruncating(io) ==
    /\ potential_log' = IF io = "potential_fails" THEN potential_log
                        ELSE <<VipPotentialChunk(pin_number)>>
    /\ faults' = IF io = "potential_fails" THEN faults + 1 ELSE faults
    /\ UNCHANGED <<new_finds_counter, found_log, ci_exists, ci_file, ci_written,
                   matched_ever>>

\* vip: the elif branch of _check_pin, its append in a try of its own
VipLogPotential(io) ==
    /\ potential_log' = IF io = "potential_fails" THEN potential_log
                        ELSE Append(potential_log, VipPotentialChunk(pin_number))
    /\ faults' = IF io = "potential_fails" THEN faults + 1 ELSE faults
    /\ UNCHANGED <<new_finds_counter, found_log, ci_exists, ci_file, ci_written,
                   matched_ever>>

\* vip: _check_pin on a candidate that is not skipped and whose POST returns
VipCheckPin(status, response_text, io) ==
    LET class == ClassOf[response_text]
        eff == IF ~VipStatusAccepted(status) THEN "ok" ELSE IOApplies(class, io)
    IN
    /\ variant = "vip"
    /\ InLoop
    /\ VipStatusAccepted(status) => Room(class)
    /\ io = eff
    /\ io = "ok" \/ faults < MaxFaults
    /\ ~ShouldSkip(pin_number, processed_pins)
    /\ posts' = Append(posts, pin_number)
    /\ pin_number' = NextPin(pin_number)
    /\ IF ~VipStatusAccepted(status)
       THEN /\ Note("nonok", "other", status, "-", VipCooldown(status))
            /\ UNCHANGED <<new_finds_counter, found_log, potential_log, ci_exists,
                           ci_file, ci_written, faults, matched_ever>>
       ELSE CASE class = "Match" ->
                   /\ VipProcessSuccessfulFind(eff, response_text)
                   /\ Note("match", "match", status, eff, 0)
              [] class = "Potential" ->
                   /\ VipLogPotential(eff)
                   /\ Note("potential", "potential", status, eff, 0)
              [] OTHER ->
                   /\ Note("rejected", "other", status, "-", 0)
                   /\ UNCHANGED <<new_finds_counter, found_log, potential_log,
                                  ci_exists, ci_file, ci_written, faults, matched_ever>>
    /\ UNCHANGED <<config, phase, processed_pins, at_start>>

\* script: the Match branch of scan_pins; an IOError of an append is caught nowhere
\* (the except clause names requests.exceptions.RequestException) and ends the process
ScriptMatch(io, response_text) ==
    /\ new_finds_counter' = new_finds_counter + 1
    /\ found_log' = IF io = "found_fails" THEN found_log
                    ELSE Append(found_log, ScriptFoundChunk(pin_number))
    /\ ci_file' = IF io \in {"found_fails", "ci_fails"} THEN ci_file
                  ELSE Append(ci_file, ScriptCIChunk(pin_number, response_text))
    /\ ci_written' = IF io \in {"found_fails", "ci_fails"} THEN ci_written
                     ELSE Append(ci_written, ScriptCIChunk(pin_number, response_text))
    /\ ci_exists' = IF io \in {"found_fails", "ci_fails"} THEN ci_exists ELSE TRUE
    /\ faults' = IF io \in {"found_fails", "ci_fails"} THEN faults + 1 ELSE faults
    /\ matched_ever' = IF io = "found_fails" THEN matched_ever
                       ELSE matched_ever \cup {pin_number}
    /\ UNCHANGED potential_log

\* script: the elif branch of scan_pins appends to LOG_FILE, the found-log
ScriptLogPotential(io) ==
    /\ found_log' = IF io = "potential_fails" THEN found_log
                    ELSE Append(found_log, ScriptFoundChunk(pin_number))
    /\ faults' = IF io = "potential_fails" THEN faults + 1 ELSE faults
    /\ UNCHANGED <<new_finds_counter, potential_log, ci_exists, ci_file, ci_written,
                   matched_ever>>

\* script: one iteration of scan_pins on a candidate that is not skipped and
\* whose POST returns
ScriptCheckPin(status, response_text, io) ==
    LET class == ClassOf[response_text]
        eff == IF ~ScriptStatusAccepted(status) THEN "ok" ELSE IOApplies(class, io)
        raised == eff # "ok"
    IN
    /\ variant = "script"
    /\ InLoop
    /\ ScriptStatusAccepted(status) => Room(class)
    /\ io = eff
    /\ io = "ok" \/ faults < MaxFaults
    /\ ~ShouldSkip(pin_number, processed_pins)
    /\ posts' = Append(posts, pin_number)
    /\ pin_number' = IF raised THEN pin_number ELSE NextPin(pin_number)
    /\ phase' = IF raised THEN "Crashed" ELSE phase
    /\ IF ~ScriptStatusAccepted(status)
       THEN /\ Note("nonok", "other", status, "-", 0)
            /\ UNCHANGED <<new_finds_counter, found_log, potential_log, ci_exists,
                           ci_file, ci_written, faults, matched_ever>>
       ELSE CASE class = "Match" ->
                   /\ ScriptMatch(eff, response_text)
                   /\ Note("match", "match", status, eff, 0)
              [] class = "Potential" ->
                   /\ ScriptLogPotential(eff)
                   /\ Note("potential", "potential", status, eff, 0)
              [] OTHER ->
                   /\ Note("rejected", "other", status, "-", 0)
                   /\ UNCHANGED <<new_finds_counter, found_log, potential_log,
                                  ci_exists, ci_file, ci_written, faults, matched_ever>>
    /\ UNCHANGED <<config, processed_pins, at_start>>

\* ----------------------------------------------------------- end of a run
\* vip: the tail of run(): the loop is over, the summary is logged
VipFinish ==
    /\ variant = "vip"
    /\ phase = "Scanning"
    /\ pin_number > end_pin
    /\ phase' = "Finished"
    /\ last' = [NoStep EXCEPT !.kind = "finish"]
    /\ UNCHANGED <<config, pin_number, processed_pins, new_finds_counter, found_log,
                   potential_log, ci_exists, ci_file,  posts, outcome,
                   at_start, ci_written, faults, matched_ever>>

\* script: the tail of scan_pins: the summary is printed, then CI_OUTPUT_FILE is
\* opened for reading, which raises FileNotFoundError when no Match created it
ScriptFinish ==
    /\ variant = "script"
    /\ phase = "Scanning"
    /\ pin_number > end_pin
    /\ phase' = IF ci_exists THEN "Finished" ELSE "Crashed"
    /\ last' = [NoStep EXCEPT !.kind = "finish"]
    /\ UNCHANGED <<config, pin_number, processed_pins, new_finds_counter, found_log,
                   potential_log, ci_exists, ci_file,  posts, outcome,
                   at_start, ci_written, faults, matched_ever>>

\* ------------------------------------------------------------ interruption
\* the process is gone: no scanner object, no loop, no history of the run; the
\* files stay as they are
ProcessGone(kind) ==
    /\ phase' = "Idle"
    /\ pin_number' = 0
    /\ processed_pins' = {}
    /\ new_finds_counter' = 0
    /\ posts' = <<>>
    /\ outcome' = NoOutcome
    /\ last' = [NoStep EXCEPT !.kind = kind]
    /\ at_start' = [found |-> 0, potential |-> 0]
    /\ ci_written' = <<>>
    /\ faults' = 0

\* the process is terminated (SIGKILL, power loss) between two iterations of the
\* loop or inside one that appends nothing
Interrupt ==
    /\ phase = "Scanning"
    /\ ProcessGone("interrupt")
    /\ UNCHANGED <<config, found_log, potential_log, ci_exists, ci_file, matched_ever>>

\* the process is terminated inside the Match branch, after the append to the
\* found-log and before the append to the CI file
InterruptInMatch(response_text) ==
    /\ InLoop
    /\ ~ShouldSkip(pin_number, processed_pins)
    /\ ClassOf[response_text] = "Match"
    /\ Room("Match")
    /\ found_log' = Append(found_log,
                           IF variant = "vip" THEN VipFoundChunk(pin_number, response_text)
                           ELSE ScriptFoundChunk(pin_number))
    /\ matched_ever' = matched_ever \cup {pin_number}
    /\ ProcessGone("interrupt")
    /\ UNCHANGED <<config, potential_log, ci_exists, ci_file>>

\* ------------------------------------------------------------------- Next
Next ==
    \/ \E read \in ReadOutcomes : Construct(read)
    \/ RunStart
    \/ \E read \in ReadOutcomes : ScanPinsStart(read)
    \/ SkipPin
    \/ TransportError
    \/ \E st \in Statuses, b \in Bodies, io \in IOOutcomes : VipCheckPin(st, b, io)
    \/ \E st \in Statuses, b \in Bodies, io \in IOOutcomes : ScriptCheckPin(st, b, io)
    \/ VipFinish
    \/ ScriptFinish
    \/ Interrupt
    \/ \E b \in Bodies : InterruptInMatch(b)
    \/ Exit

Spec == Init /\ [][Next]_vars

\* ------------------------------------------------- the classifier on its own
\* the characters of the texts the classifier is checked on
ClassifyAlphabet == {"a", "A", "b"}

TextsUpTo(n) == UNION {[1..k -> ClassifyAlphabet] : k \in 0..n}

\* the run is not started; the indicators and the response text are drawn
ClassifyInit ==
    /\ variant = "vip"
    /\ start_pin = 0
    /\ end_pin = 0
    /\ phase = "Idle"
    /\ pin_number = 0
    /\ processed_pins = {}
    /\ new_finds_counter = 0
    /\ found_log = <<>>
    /\ potential_log = <<>>
    /\ ci_exists = FALSE
    /\ ci_file = <<>>
    /\ posts = <<>>
    /\ outcome = NoOutcome
    /\ last = NoStep
    /\ at_start = [found |-> 0, potential |-> 0]
    /\ ci_written = <<>>
    /\ faults = 0
    /\ matched_ever = {}
    /\ \E s \in TextsUpTo(MaxIndicatorLen), f \in TextsUpTo(MaxIndicatorLen),
          t \in TextsUpTo(MaxBodyLen) :
          classified = [success |-> s, failure |-> f, text |-> t, verdict |-> "none"]

\* the if / elif / else of _check_pin on the drawn text
ClassifyStep ==
    /\ classified.verdict = "none"
    /\ classified' = [classified EXCEPT
                        !.verdict = Classify(classified.success, classified.failure,
                                             classified.text)]
    /\ UNCHANGED <<variant, start_pin, end_pin, phase, pin_number, processed_pins,
                   new_finds_counter, found_log, potential_log, ci_exists, ci_file,
                   posts, outcome, last, at_start, ci_written, faults, matched_ever>>

ClassifySpec == ClassifyInit /\ [][ClassifyStep]_vars

\* ================================================================== claims
InRun == phase \in {"Scanning", "Finished", "Crashed"}

\* a chunk without the "--- NEW FIND ---" line the vip variant opens it with
RecordBody(chunk) ==
    IF chunk # <<>> /\ chunk[1] = "--- NEW FIND ---" THEN SubSeq(chunk, 3, Len(chunk))
    ELSE chunk

\* the chunk is the record (found-log) or the block (CI file) of candidate c: it
\* opens with "PIN: <c>" and a newline
IsRecordFor(chunk, c) ==
    LET h == <<"PIN", ":", " ">> \o Str(c) \o <<"NL">>
        b == RecordBody(chunk)
    IN  Len(b) >= Len(h) /\ SubSeq(b, 1, Len(h)) = h

\* the number of records of candidate c among the chunks file[from + 1 ..]
RecordsFor(file, from, c) ==
    Cardinality({i \in (from + 1)..Len(file) : IsRecordFor(file[i], c)})

\* the candidates of the range that the ResumeSet holds
ResumeInRange == {c \in Range : Str(c) \in processed_pins}

\* every candidate of the range has been skipped or probed
AllHandled == \A c \in Range : outcome[c] # "none"

\* C1: no POST is issued for a candidate whose decimal string is in the ResumeSet,
\* and once the loop is over the run has issued end - start + 1 - |ResumeSet n range|
\* POSTs, whatever the probes answered.
C1_ResumeSetNeverProbed ==
    /\ \A i \in 1..Len(posts) : Str(posts[i]) \notin processed_pins
    /\ (InRun /\ start_pin <= end_pin /\ pin_number > end_pin)
          => Len(posts) = end_pin - start_pin + 1 - Cardinality(ResumeInRange)

\* a finished run that skipped a candidate of the ResumeSet and probed another
C1_Witness ==
    /\ phase = "Finished"
    /\ ResumeInRange # {}
    /\ Len(posts) >= 1
    /\ \E c \in Range : outcome[c] = "skipped"

\* C2: over any sequence of scans the found-log holds at most one Match record per
\* candidate, also when run() is called a second time.
C2_NoDuplicateMatchRecord ==
    \A c \in Pins : RecordsFor(found_log, 0, c) <= 1

\* C3: the ResumeSet loaded at the start of a run is exactly the set of the
\* candidate strings whose Match record was appended to the found-log.
C3_ResumeSetIsMatchedSet ==
    [][(phase = "Idle" /\ phase' # "Idle")
          => processed_pins' = {Str(c) : c \in matched_ever}]_vars

\* C4: after a complete run whose appends all succeed, the found-log gained one
\* record and the CI file holds one block for each candidate probed with a Match
\* outcome in this run, neither file gained anything for any other candidate, and
\* the blocks are in increasing candidate order.
C4_OneRecordPerMatch ==
    (phase = "Finished" /\ faults = 0) =>
        /\ \A c \in Range :
              LET gained == RecordsFor(found_log, at_start.found, c)
                  blocks == RecordsFor(ci_file, 0, c)
              IN  IF outcome[c] = "match" THEN gained = 1 /\ blocks = 1
                  ELSE gained = 0 /\ blocks = 0
        /\ \A i, j \in 1..Len(ci_file) :
              i < j => \A c, d \in Pins :
                  (IsRecordFor(ci_file[i], c) /\ IsRecordFor(ci_file[j], d)) => c < d

\* C5: the CI file is cleared before the first probe of each run: at every state of
\* a run it holds the chunks this run appended and nothing else, and it does not
\* exist while this run has appended nothing.
C5_CIHoldsOnlyThisRun ==
    InRun => (ci_file = ci_written /\ (ci_exists <=> ci_written # <<>>))

\* a run has just started and cleared the chunks an earlier run left in the CI file
C5_Witness ==
    /\ phase = "Scanning"
    /\ last.kind = "start"
    /\ last.cleared > 0
    /\ ci_file = <<>>
    /\ ~ci_exists

\* C6: a candidate whose probe raised a transport error gains nothing in the
\* found-log, the potential-log and the CI file, is probed once in the run, the scan
\* goes on after it, and it is absent from the ResumeSet the next run loads.
C6_TransportErrorLeavesNoTrace ==
    \A c \in Pins :
        (InRun /\ outcome[c] = "error") =>
            /\ RecordsFor(found_log, at_start.found, c) = 0
            /\ RecordsFor(ci_file, 0, c) = 0
            /\ \A i \in (at_start.potential + 1)..Len(potential_log) :
                  potential_log[i] # Str(c) \o <<"NL">>
            /\ Cardinality({i \in 1..Len(posts) : posts[i] = c}) = 1
            /\ pin_number > c
            /\ Str(c) \notin LoadProcessedPins(found_log)

\* C7: a response with a non-2xx status appends nothing and leaves the counter
\* alone, a response with a 2xx status is classified by its body.
C7_StatusDecides ==
    [][(posts' # posts /\ last'.kind # "error") =>
          IF last'.status \in 200..299
          THEN last'.kind \in {"match", "potential", "rejected"}
          ELSE UNCHANGED <<found_log, potential_log, ci_file, new_finds_counter>>]_vars

\* C8: a run over a range with start <= end ends Finished, and only after every
\* candidate of the range has been skipped or probed.
C8_RunReachesFinished ==
    (phase \in {"Finished", "Crashed"} /\ start_pin <= end_pin) =>
        (phase = "Finished" /\ AllHandled)

\* C9: a failed append does not abort the scan: the scan goes on and the run ends
\* Finished with every candidate skipped or probed.
C9_WriteFailureDoesNotAbort ==
    (InRun /\ faults > 0) =>
        /\ phase \in {"Scanning", "Finished"}
        /\ phase = "Finished" => AllHandled

\* the text holds the needle at some place, the characters compared by same
HasWindow(text, needle, same(_, _)) ==
    \E i \in 1..(Len(text) - Len(needle) + 1) :
        \A j \in 1..Len(needle) : same(text[i + j - 1], needle[j])

SameExact(x, y) == x = y
SameIgnoringCase(x, y) == x = y \/ {x, y} = {"a", "A"} \/ {x, y} = {"b", "B"}

\* C10: the verdict is Match when the text holds the success indicator in its
\* exact case, else Rejected when it holds the failure indicator in any case,
\* else Potential.
C10_Classification ==
    classified.verdict # "none" =>
        classified.verdict =
            IF HasWindow(classified.text, classified.success, SameExact) THEN "Match"
            ELSE IF HasWindow(classified.text, classified.failure, SameIgnoringCase)
                 THEN "Rejected"
            ELSE "Potential"

\* a text with both indicators, the failure indicator in another case, is a Match
C10_Witness ==
    /\ classified.verdict = "Match"
    /\ classified.success # <<>>
    /\ classified.failure # <<>>
    /\ HasWindow(classified.text, classified.failure, SameIgnoringCase)
    /\ ~HasWindow(classified.text, classified.failure, SameExact)

\* the number of lines of the potential-log this run appended for candidate c
PotentialLinesFor(c) ==
    Cardinality({i \in (at_start.potential + 1)..Len(potential_log) :
                    potential_log[i] = Str(c) \o <<"NL">>})

\* C11: a candidate classified Potential is appended, as a bare candidate string,
\* to the potential-log only: the found-log and the CI file gain nothing for it and
\* the ResumeSet read from the found-log does not hold it.
C11_PotentialOnlyInPotentialLog ==
    \A c \in Pins :
        (InRun /\ outcome[c] = "potential" /\ faults = 0) =>
            /\ PotentialLinesFor(c) = 1
            /\ RecordsFor(found_log, at_start.found, c) = 0
            /\ RecordsFor(ci_file, 0, c) = 0
            /\ (c \notin matched_ever => Str(c) \notin LoadProcessedPins(found_log))

\* C12: at the end of every invocation of run the match count is the number of
\* candidates probed with a Match outcome in that invocation, also when run is
\* invoked again on the same scanner.
C12_CounterIsPerInvocation ==
    phase = "Finished" =>
        new_finds_counter = Cardinality({c \in Range : outcome[c] = "match"})

\* a step of the loop that sent a request
ProbeKinds == {"error", "nonok", "match", "potential", "rejected"}

\* C13: loading the ResumeSet is never fatal: a missing found-log gives the empty
\* set, a found-log whose read fails (I/O error, undecodable content) gives the
\* empty set too, and the scanner goes on to the scan.
C13_LoadIsNeverFatal ==
    /\ phase # "Aborted"
    /\ (last.kind \in {"load", "start"} /\ last.read \in {"io_error", "decode_error"})
          => processed_pins = {}
    /\ (last.kind \in {"load", "start"} /\ last.read = "ok" /\ found_log = <<>>)
          => processed_pins = {}

\* C14: after an interrupted run the next run loads as ResumeSet exactly the
\* candidates whose Match record had been appended to the found-log.
C14_InterruptedRunResumes ==
    [][(phase = "Idle" /\ last.kind = "interrupt" /\ phase' \in {"Ready", "Scanning"}
          /\ last'.read = "ok")
          => processed_pins' = {Str(c) : c \in matched_ever}]_vars

\* C15: a run configured with start > end does not end as a Finished scan.
C15_InvalidRangeIsFatal ==
    start_pin > end_pin => phase # "Finished"

\* C16: the delay sleep is made after every probed candidate and after no skipped
\* candidate.
C16_DelayOncePerProbe ==
    (phase = "Scanning" /\ last.kind \in ProbeKinds \cup {"skipped"}) =>
        (last.delay <=> last.kind \in ProbeKinds)

\* C17: a run over a valid range that probes no Match ends Finished with a match
\* count of 0.
C17_NoMatchRunCompletes ==
    (last.kind = "finish" /\ start_pin <= end_pin
        /\ \A c \in Range : outcome[c] # "match")
        => (phase = "Finished" /\ new_finds_counter = 0)

\* C18: within a run the probes go out in strictly increasing candidate order, each
\* candidate of the range at most once, and a candidate is handled only when every
\* candidate before it in the range has been handled.
C18_ProbesInOrder ==
    InRun =>
        /\ \A i, j \in 1..Len(posts) : i < j => posts[i] < posts[j]
        /\ \A i \in 1..Len(posts) :
              posts[i] \in Range /\ outcome[posts[i]] \notin {"none", "skipped"}
        /\ LET handled == {c \in Pins : outcome[c] # "none"}
           IN  \/ handled = start_pin..(pin_number - 1)
               \/ phase = "Crashed" /\ handled = start_pin..pin_number

\* a finished run that probed two candidates, one after the other
C18_Witness ==
    /\ phase = "Finished"
    /\ Len(posts) >= 2
    /\ posts[1] < posts[2]

\* C19: the cooldown sleep is made exactly in the probes answered with status 429,
\* 503 or 504.
C19_CooldownOnRateLimit ==
    (InRun /\ last.kind \in ProbeKinds) =>
        (last.paused = CooldownSeconds
            <=> (last.kind # "error" /\ last.status \in {429, 503, 504}))

IsPrefix(a, b) == Len(a) <= Len(b) /\ SubSeq(b, 1, Len(a)) = a

\* C20: the found-log and the potential-log only grow: every step leaves what they
\* held in place; the CI file alone is ever emptied.
C20_LogsAreAppendOnly ==
    [][/\ IsPrefix(found_log, found_log')
       /\ IsPrefix(potential_log, potential_log')
       /\ (IsPrefix(ci_file, ci_file') \/ ci_file' = <<>>)]_vars

\* a run starts and deletes the CI file of the run before, both logs keep their records
C20_Witness ==
    /\ last.kind = "start"
    /\ last.cleared > 0
    /\ found_log # <<>>
    /\ potential_log # <<>>

\* C21: a step that skips a candidate or classifies its response Rejected leaves
\* the found-log, the potential-log, the CI file, the match counter and the
\* ResumeSet as they were, and no step of a run changes the ResumeSet.
C21_SkipAndRejectedChangeNothing ==
    [][/\ (pin_number' # pin_number /\ last'.kind \in {"skipped", "rejected"})
            => UNCHANGED <<found_log, potential_log, ci_exists, ci_file,
                           new_finds_counter, processed_pins>>
       /\ (phase = "Scanning" /\ phase' \in {"Scanning", "Finished", "Crashed"})
            => processed_pins' = processed_pins]_vars

\* a run with files to keep has skipped one candidate and just rejected another
C21_Witness ==
    /\ phase = "Scanning"
    /\ last.kind = "rejected"
    /\ \E c \in Range : outcome[c] = "skipped"
    /\ found_log # <<>>
    /\ processed_pins # {}

\* C22: in every state of a run, every candidate with a block in the CI file has
\* a record the found-log gained in this run, and the match counter is at least
\* the number of records the found-log gained in this run.
C22_CIWithinFoundLog ==
    InRun =>
        /\ \A c \in Pins :
              RecordsFor(ci_file, 0, c) > 0
                  => RecordsFor(found_log, at_start.found, c) > 0
        /\ new_finds_counter >= Len(found_log) - at_start.found

====
